---- MODULE Spec2Model ----
(***************************************************************************)
(* Compaction core of goleveldb (leveldb/db_compaction.go): the transact   *)
(* runner, the error loop, MemFlush, the table compaction merge with its   *)
(* retry snapshot, and the two dispatch loops with their pause rendezvous. *)
(***************************************************************************)
EXTENDS Integers, Sequences, FiniteSets, TLC

(***************************************************************************)
(* Bounds of the model.                                                    *)
(***************************************************************************)
\* user keys are 0..MaxUkey; 0 stands for the zero-length user key
MaxUkey == 1
\* sequence numbers of records are 1..MaxSeq, minSeq ranges over 0..MaxSeq
MaxSeq == 2
\* merge inputs hold at most MaxLen records
MaxLen == 3
\* output size threshold (in records) ranges over 1..MaxTableSize
MaxTableSize == 2
\* transient failures injected into one run of the merge specification
MaxFaults == 1

(***************************************************************************)
(* Program constants.                                                      *)
(***************************************************************************)
\* kMaxSeq = 2^56 - 1 does not fit TLC's integers; any value above every
\* sequence number and every minSeq behaves the same in the comparisons.
kMaxSeq == 1000000
\* key types: ktDel < ktVal
ktDel == 0
ktVal == 1
\* one second, in the model's time unit (the code counts nanoseconds)
Second == 1000
backoffMin == 1 * Second
backoffMax == 8 * Second
backoffMul == 2 * Second

\* error values: nil, a transient I/O error, a corruption error, ErrClosed
Nil == "nil"
ErrIO == "io"
ErrCorrupted == "corrupted"
ErrClosed == "closed"

IsCorrupted(e) == e = ErrCorrupted

VARIABLES
    \* --- the compaction object and the options read by tableCompaction
    input,          \* c.newIterator(): the merged source records, in order
    stopSet,        \* positions (1-based) whose key makes shouldStopBefore true
    deeper,         \* user keys present in levels deeper than c.level+1
    minSeq,         \* db.minSeq() captured at line 366
    tableSize,      \* GetCompactionTableSize(c.level+1)
    strict,         \* GetStrict(StrictCompaction)
    disableBackoff, \* GetDisableCompactionBackoff()
    \* --- tableCompaction: closure variables, exec locals, rec.addedTables
    b,
    \* --- per dispatch loop: position and compactionTransact frame
    pc,
    tx,
    \* --- memCompaction
    frozenMem,      \* db.getFrozenMem(): "none" | "empty" | "full"
    cmem,           \* the cMem: rec.addedTables, the files it created
    resumeC,        \* the resumeC local: "nil" | "open"
    \* --- dispatch loops
    x,              \* the x local of mCompaction and of tCompaction
    ackQ,           \* tCompaction's ackQ
    need,           \* v.needCompaction() of the current version
    call,           \* who called tableCompaction, and the calls still to make
    \* --- callers of compSendIdle / compSendRange / compSendTrigger
    snd,
    \* --- error loop (compactionError)
    errState,       \* "noerr" | "haserr" | "hasperr" | "done"
    err,            \* the err variable of compactionError
    wlocked,        \* the wlocked variable of compactionError
    writeLockC,     \* holder of the one-slot channel: "free" | "errloop" | "writer"
    \* --- shutdown: db.isClosed() and the closeC channel
    closed,
    closeC,
    \* --- budget of injected transient failures
    faults,
    \* --- history: how each loop's latest compactionTransact call ended
    exitLog,
    \* --- history: the idle commands of ackQ for which tableNeedCompaction
    \*     was found false with no MemFlush commit since
    quiet

cfgVars == <<input, stopSet, deeper, minSeq, tableSize, strict, disableBackoff>>
memVars == <<frozenMem, cmem, resumeC>>
tblVars == <<ackQ, need, call, quiet>>
errVars == <<errState, err>>
lockVars == <<wlocked, writeLockC>>
closeVars == <<closed, closeC>>
vars == <<input, stopSet, deeper, minSeq, tableSize, strict, disableBackoff,
          b, pc, tx, frozenMem, cmem, resumeC, x, ackQ, need, call, snd,
          errState, err, wlocked, writeLockC, closed, closeC, faults, exitLog,
          quiet>>

(***************************************************************************)
(* Internal keys.  A record of the merge input is its internal key (the    *)
(* value plays no part in the merge): ok = FALSE is a key parseIkey        *)
(* rejects.                                                                *)
(***************************************************************************)
UKeys == 0..MaxUkey
Seqs == 1..MaxSeq
EmptyUkey == 0

IKeys == [ok : {TRUE}, ukey : UKeys, seq : Seqs, kt : {ktDel, ktVal}]
            \cup {[ok |-> FALSE, ukey |-> EmptyUkey, seq |-> 0, kt |-> ktVal]}

uCompare(k1, k2) == IF k1 < k2 THEN -1 ELSE IF k1 > k2 THEN 1 ELSE 0

\* internal comparator: user key ascending, then sequence descending, then
\* kind descending
iLess(k1, k2) ==
    \/ uCompare(k1.ukey, k2.ukey) < 0
    \/ /\ uCompare(k1.ukey, k2.ukey) = 0
       /\ \/ k1.seq > k2.seq
          \/ k1.seq = k2.seq /\ k1.kt > k2.kt

\* a merge input: the well-formed keys are strictly increasing in the
\* internal order and no (user key, sequence) pair occurs twice
SortedInput(s) ==
    \A i, j \in 1..Len(s) :
        (i < j /\ s[i].ok /\ s[j].ok) =>
            /\ iLess(s[i], s[j])
            /\ ~(s[i].ukey = s[j].ukey /\ s[i].seq = s[j].seq)

SeqsUpTo(S, n) == UNION {[1..k -> S] : k \in 0..n}

Inputs == {s \in SeqsUpTo(IKeys, MaxLen) : SortedInput(s)}

WellFormed(s) == \A i \in 1..Len(s) : s[i].ok

(***************************************************************************)
(* The compaction object's predicates.                                     *)
(***************************************************************************)
\* c.shouldStopBefore(ikey), for the key at position pos of the input
shouldStopBefore(pos) == pos \in stopSet

\* c.baseLevelForKey(ukey): no deeper level holds the user key
baseLevelForKey(ukey) == ukey \notin deeper


(***************************************************************************)
(* tableCompaction: the table@build exec.  b holds the closure variables   *)
(* (snap*, kerrCnt, dropCnt), the exec's locals (hasLastUkey, lastUkey,    *)
(* lastSeq, snapSched, tw, i), rec.addedTables, the table files the        *)
(* compaction created that are on disk, and the next file number.  A table *)
(* writer and a table are [num, recs]; a writer's BytesLen counts one unit *)
(* per record.                                                             *)
(***************************************************************************)
NoWriter == [open |-> FALSE, num |-> 0, recs |-> <<>>]

\* lines 369-378 with a fresh session record (line 343)
NewBuild ==
    [snapHasLastUkey |-> FALSE, snapLastUkey |-> EmptyUkey, snapLastSeq |-> 0,
     snapIter |-> 0, snapKerrCnt |-> 0, snapDropCnt |-> 0,
     kerrCnt |-> 0, dropCnt |-> 0,
     hasLastUkey |-> FALSE, lastUkey |-> EmptyUkey, lastSeq |-> 0,
     snapSched |-> FALSE, tw |-> NoWriter, i |-> 0,
     addedTables |-> <<>>, disk |-> {}, nextNum |-> 1, committed |-> FALSE]

\* lines 384-391 and 412: the exec restores its locals from the snapshot
\* and restarts the iterator
Restore(st) ==
    [st EXCEPT !.hasLastUkey = st.snapHasLastUkey,
               !.lastUkey = st.snapLastUkey,
               !.lastSeq = st.snapLastSeq,
               !.kerrCnt = st.snapKerrCnt,
               !.dropCnt = st.snapDropCnt,
               !.snapSched = (st.snapIter = 0),
               !.tw = NoWriter,
               !.i = 0]

\* tw.tw.BytesLen()
BytesLen(w) == Len(w.recs)

\* lines 392-401: finish() on success stages the table in the record
finish(st) ==
    [st EXCEPT !.addedTables = Append(@, [num |-> st.tw.num, recs |-> st.tw.recs])]

\* lines 403-409: the exec's deferred tw.drop() removes the unfinished file
DropWriter(st) ==
    IF st.tw.open
      THEN [st EXCEPT !.disk = @ \ {st.tw.num}, !.tw = NoWriter]
      ELSE st

\* lines 438-446: capture the snapshot when one is scheduled
Capture(st) ==
    IF st.snapSched
      THEN [st EXCEPT !.snapHasLastUkey = st.hasLastUkey,
                      !.snapLastUkey = st.lastUkey,
                      !.snapLastSeq = st.lastSeq,
                      !.snapIter = st.i,
                      !.snapKerrCnt = st.kerrCnt,
                      !.snapDropCnt = st.dropCnt,
                      !.snapSched = FALSE]
      ELSE st

\* lines 449-454: first occurrence of this user key
FirstOccurrence(st, ukey) ==
    IF ~st.hasLastUkey \/ uCompare(st.lastUkey, ukey) # 0
      THEN [st EXCEPT !.hasLastUkey = TRUE, !.lastUkey = ukey, !.lastSeq = kMaxSeq]
      ELSE st

\* rule (A) without the snapshot bound: every older version is dropped
RuleA_IgnoringMinSeq(st) == st.lastSeq # kMaxSeq

\* line 457, rule (A): a newer entry for the same user key exists
RuleA(st) == st.lastSeq <= minSeq

\* rule (B) with the bound off by one
RuleB_StrictlyBelow(st, ikey) ==
    ikey.kt = ktDel /\ ikey.seq < minSeq /\ baseLevelForKey(st.lastUkey)

\* line 460, rule (B): an obsolete deletion marker
RuleB(st, ikey) ==
    ikey.kt = ktDel /\ ikey.seq <= minSeq /\ baseLevelForKey(st.lastUkey)

\* the outcome of a step of the exec: the new state, where the exec goes
\* next ("next": iter.Next(); "write": lines 486-518; "ret": the exec
\* returns e)
Out(st, to, e) == [st |-> st, to |-> to, e |-> e]

\* lines 423-484, for the record at index st.i (past the skip): f = "finish"
\* makes the finish() of line 428 fail
Record(st, f) ==
    LET ikey == input[st.i + 1]
        kerr == ~ikey.ok
        stop == ~kerr /\ shouldStopBefore(st.i + 1) /\ st.tw.open
        s1 == IF stop
                THEN [finish(st) EXCEPT !.snapSched = TRUE, !.tw = NoWriter]
                ELSE st
        s2 == Capture(s1)
        s3 == FirstOccurrence(s2, ikey.ukey)
    IN  IF stop /\ f = "finish" THEN Out(DropWriter(st), "ret", ErrIO)
        ELSE IF ~kerr
          THEN IF RuleA(s3) \/ RuleB(s3, ikey)
                 THEN Out([s3 EXCEPT !.lastSeq = ikey.seq,
                                     !.dropCnt = @ + 1,
                                     !.i = @ + 1], "next", Nil)
                 ELSE Out([s3 EXCEPT !.lastSeq = ikey.seq], "write", Nil)
          ELSE IF strict
                 THEN Out(DropWriter(s2), "ret", ErrCorrupted)
                 ELSE Out([s2 EXCEPT !.hasLastUkey = FALSE,
                                     !.lastUkey = EmptyUkey,
                                     !.lastSeq = kMaxSeq,
                                     !.kerrCnt = @ + 1], "write", Nil)

\* lines 521-534: the loop has ended; f = "iter" / "iterc" is an iter.Error()
\* (transient / corruption), f = "finish" makes the last finish() fail
Last(st, f) ==
    IF f = "iter" THEN Out(DropWriter(st), "ret", ErrIO)
    ELSE IF f = "iterc" THEN Out(DropWriter(st), "ret", ErrCorrupted)
    ELSE IF st.tw.open /\ st.tw.recs # <<>>
      THEN IF f = "finish"
             THEN Out(DropWriter(st), "ret", ErrIO)
             ELSE Out([finish(st) EXCEPT !.tw = NoWriter], "ret", Nil)
      ELSE Out(DropWriter(st), "ret", Nil)

\* line 414 onwards: one iter.Next() and what follows up to the point where
\* the record has to be written.  f = "iter" / "iterc": Next() returns false
\* because the iterator failed.
Advance(st, f) ==
    IF f \in {"iter", "iterc"} \/ st.i >= Len(input) THEN Last(st, f)
    ELSE IF st.i < st.snapIter THEN Out([st EXCEPT !.i = @ + 1], "next", Nil)
    ELSE Record(st, f)

\* lines 497-518: create the writer if there is none, append, finish the
\* table when it is big enough; f names the call that fails
WriteRecord(st, f) ==
    LET s1 == IF st.tw.open THEN st
              ELSE [st EXCEPT !.tw = [open |-> TRUE, num |-> st.nextNum, recs |-> <<>>],
                              !.disk = @ \cup {st.nextNum},
                              !.nextNum = @ + 1]
        s2 == [s1 EXCEPT !.tw.recs = Append(@, input[st.i + 1])]
    IN  IF ~st.tw.open /\ f = "create" THEN Out(st, "ret", ErrIO)
        ELSE IF f = "append" THEN Out(DropWriter(s1), "ret", ErrIO)
        ELSE IF BytesLen(s2.tw) >= tableSize
          THEN IF f = "finish"
                 THEN Out(DropWriter(s2), "ret", ErrIO)
                 ELSE Out([finish(s2) EXCEPT !.snapSched = TRUE,
                                             !.tw = NoWriter,
                                             !.i = @ + 1], "next", Nil)
          ELSE Out([s2 EXCEPT !.i = @ + 1], "next", Nil)


\* the exec's locals go out of scope when it returns
EndExec(st) ==
    [DropWriter(st) EXCEPT !.hasLastUkey = FALSE, !.lastUkey = EmptyUkey,
                           !.lastSeq = 0, !.snapSched = FALSE, !.i = 0]

(***************************************************************************)
(* compactionTransact.  tx[p] is the frame of the call loop p is in: its   *)
(* name, the err of the latest exec, backoff, lastCnt, the cnt of the      *)
(* running attempt, the loop variable n (the attempts that failed) and     *)
(* wait, the duration the backoff timer was last reset to.  pc[p] is "tx_top" (line 199), "tx_exec" (inside       *)
(* exec), "tx_pub" (the select of line 216) or "tx_backoff" (the select of *)
(* line 250).  exitLog[p] is how the transact that loop p was in ended by  *)
(* a sentinel panic: its name, the cause, the err of its latest exec and   *)
(* the number of times its rollback ran.                                   *)
(***************************************************************************)
Loops == {"mem", "table"}

NoExit == [name |-> "none", cause |-> "none", err |-> Nil, rolled |-> 0]

NoCall == [caller |-> "none", left |-> 0]

\* lines 187-198: a new frame
NewTx(name) ==
    [name |-> name, err |-> Nil, backoff |-> backoffMin, lastCnt |-> 0,
     cnt |-> 0, n |-> 0, wait |-> 0]

\* the transacts that register a rollback (lines 299 and 535)
HasRollback(name) == name \in {"mem@flush", "table@build"}

\* pc with loop p moved to where
Goto(p, where) == [pc EXCEPT ![p] = where]

\* the rollback of mem@flush (lines 299-308) and of table@build (lines
\* 535-544): every table of rec.addedTables is removed from disk
Removed(r) == [r EXCEPT !.disk = @ \ {r.addedTables[k].num : k \in 1..Len(r.addedTables)}]

\* compactionExitTransact (line 260) and the deferred function of lines
\* 176-185: the sentinel panic runs the rollback, if any, and goes on into
\* the deferred function of the dispatch loop; st is the build the panic
\* leaves
Abort(p, cause, st) ==
    /\ cmem' = IF tx[p].name = "mem@flush" THEN Removed(cmem) ELSE cmem
    /\ b' = IF tx[p].name = "table@build" THEN Removed(st) ELSE st
    /\ exitLog' = [exitLog EXCEPT ![p] =
          [name |-> tx[p].name, cause |-> cause, err |-> tx[p].err,
           rolled |-> IF HasRollback(tx[p].name) THEN 1 ELSE 0]]
    /\ tx' = [tx EXCEPT ![p] = NewTx("none")]
    /\ pc' = Goto(p, IF p = "mem" THEN "m_defer" ELSE "t_defer")

\* lines 235-249: the backoff to wait for, and the frame after the update
BackoffReset(t) ==
    IF t.cnt > t.lastCnt
      THEN [t EXCEPT !.backoff = backoffMin, !.lastCnt = t.cnt]
      ELSE t

BackoffNext(bo) ==
    IF bo < backoffMax
      THEN IF bo * backoffMul > backoffMax THEN backoffMax ELSE bo * backoffMul
      ELSE bo

\* lines 235-249 and the n++ of line 199: the frame after a failed attempt
\* with the timer reset to the backoff, and the backoff for the next one
Backoff(t) ==
    LET r == BackoffReset(t)
    IN  [r EXCEPT !.wait = r.backoff, !.backoff = BackoffNext(r.backoff),
                  !.n = @ + 1]

\* lines 199-210: the DB is closed, or the next attempt starts
TxTop(p) ==
    /\ pc[p] = "tx_top"
    /\ IF closed
         THEN Abort(p, "closed", b)
         ELSE /\ pc' = [pc EXCEPT ![p] = "tx_exec"]
              /\ tx' = [tx EXCEPT ![p].cnt = 0]
              /\ b' = IF tx[p].name = "table@build" THEN Restore(b) ELSE b
              /\ UNCHANGED <<cmem, exitLog>>
    /\ UNCHANGED <<cfgVars, frozenMem, resumeC, tblVars, x, snd, errVars,
                   lockVars, closeVars, faults>>


\* newCMem (line 71): a fresh record, no table created yet
NewCMem == [addedTables |-> <<>>, disk |-> {}, nextNum |-> 1, committed |-> FALSE]

\* lines 340-355 and 357-383: tableCompaction starts; a compaction that is
\* c.trivial() is moved unless noTrivial, every other one is merged
StartTableCompaction(noTrivial, caller, left, base) ==
    \E trivial \in BOOLEAN :
        /\ noTrivial => ~trivial
        /\ tx' = [tx EXCEPT !["table"] =
                     NewTx(IF trivial THEN "table@move" ELSE "table@build")]
        /\ pc' = [base EXCEPT !["table"] = "tx_top"]
        /\ b' = NewBuild
        /\ call' = [caller |-> caller, left |-> left]

\* a table loop that never finds a compaction needed
tableNeedCompaction_Never == FALSE

\* lines 593-597: the current version has a compaction score >= 1 or a
\* table marked by seeks
tableNeedCompaction == need

\* lines 587-591: tableAutoCompaction; pickCompaction returns a compaction
\* exactly when the version needs one; base is pc but for the table loop
tableAutoCompaction(base) ==
    IF tableNeedCompaction
      THEN StartTableCompaction(FALSE, "auto", 0, base)
      ELSE /\ pc' = [base EXCEPT !["table"] = "t_top"]
           /\ UNCHANGED <<tx, b, call>>

\* tableCompaction returns to tableRangeCompaction (lines 566-583) or to
\* tableAutoCompaction (line 589)
ReturnToCaller ==
    IF call.caller = "range" /\ call.left > 0
      THEN StartTableCompaction(TRUE, "range", call.left - 1, pc)
      ELSE /\ pc' = Goto("table", IF call.caller = "range" THEN "t_rack" ELSE "t_top")
           \* the frames of tableCompaction and of its transact are gone
           /\ tx' = [tx EXCEPT !["table"] = NewTx("none")]
           /\ b' = NewBuild
           /\ call' = NoCall

\* line 257, and what follows the normal return of the transact tx[p]
Return(p) ==
  /\ UNCHANGED exitLog
  /\ CASE tx[p].name = "mem@flush" ->
           \* line 310
           /\ tx' = [tx EXCEPT ![p] = NewTx("mem@commit")]
           /\ pc' = Goto(p, "tx_top")
           /\ UNCHANGED <<frozenMem, cmem, b, call>>
      [] tx[p].name = "mem@commit" ->
           \* lines 316-327: dropFrozenMem, then the resume wait or the
           \* trigger; the record and the transact's frame are not used again
           /\ frozenMem' = "none"
           /\ tx' = [tx EXCEPT ![p] = NewTx("none")]
           /\ cmem' = NewCMem
           /\ pc' = Goto(p, IF resumeC = "open" THEN "m_resume" ELSE "m_trigger")
           /\ UNCHANGED <<b, call>>
      [] tx[p].name = "table@build" ->
           \* line 547
           /\ tx' = [tx EXCEPT ![p] = NewTx("table@commit")]
           /\ pc' = Goto(p, "tx_top")
           /\ UNCHANGED <<frozenMem, cmem, b, call>>
      [] OTHER ->
           \* table@move (line 354) and table@commit (line 560)
           /\ ReturnToCaller
           /\ UNCHANGED <<frozenMem, cmem>>

\* a transact that returns after an exec error that is not a corruption
AfterPublish_ReturnOnError(p) ==
    IF tx[p].err = Nil \/ ~IsCorrupted(tx[p].err)
      THEN Return(p)
      ELSE /\ Abort(p, "corrupted", b)
           /\ UNCHANGED <<frozenMem, call>>

\* a transact that retries after a corruption error as after any other
AfterPublish_RetryCorrupted(p) ==
    IF tx[p].err = Nil THEN Return(p)
    ELSE /\ tx' = [tx EXCEPT ![p] = Backoff(tx[p])]
         /\ pc' = Goto(p, "tx_backoff")
         /\ UNCHANGED <<frozenMem, cmem, b, call, exitLog>>

\* a transact that gives up with the sentinel after any exec error
AfterPublish_ExitOnAnyError(p) ==
    IF tx[p].err = Nil THEN Return(p)
    ELSE /\ Abort(p, "corrupted", b)
         /\ UNCHANGED <<frozenMem, call>>

\* lines 227-256, after the select of line 216 let the transact go on
AfterPublish(p) ==
    IF tx[p].err = Nil THEN Return(p)
    ELSE IF IsCorrupted(tx[p].err)
      THEN /\ Abort(p, "corrupted", b)
           /\ UNCHANGED <<frozenMem, call>>
    ELSE IF disableBackoff
      THEN /\ pc' = Goto(p, "tx_top")
           /\ tx' = [tx EXCEPT ![p].n = @ + 1]
           /\ UNCHANGED <<frozenMem, cmem, b, call, exitLog>>
    ELSE /\ tx' = [tx EXCEPT ![p] = Backoff(tx[p])]
         /\ pc' = Goto(p, "tx_backoff")
         /\ UNCHANGED <<frozenMem, cmem, b, call, exitLog>>

\* an error loop that treats a corruption error as any other error
ErrorRecv_NoLatch(e) ==
    /\ errState \in {"noerr", "haserr"}
    /\ err' = e
    /\ errState' = IF e = Nil THEN "noerr" ELSE "haserr"

\* the selects of lines 134 and 151-152: the error loop sends err on
\* compErrC, on compPerErrC
OffersErrC == errState \in {"haserr", "hasperr"}

OffersPerErrC == errState = "hasperr"

\* the error loop receives e from compErrSetC (lines 121-128 and 138-145)
ErrorRecv(e) ==
    /\ errState \in {"noerr", "haserr"}
    /\ err' = e
    /\ errState' = IF e = Nil THEN "noerr"
                   ELSE IF IsCorrupted(e) THEN "hasperr"
                   ELSE "haserr"

\* line 217: the error loop takes the exec's result
TxPublish(p) ==
    /\ pc[p] = "tx_pub"
    /\ ErrorRecv(tx[p].err)
    /\ AfterPublish(p)
    /\ UNCHANGED <<cfgVars, resumeC, x, ackQ, need, quiet, snd, lockVars,
                   closeVars, faults>>

\* lines 218-222: a persistent error is received from compPerErrC
TxPerErr(p) ==
    /\ pc[p] = "tx_pub"
    /\ OffersPerErrC
    /\ IF tx[p].err # Nil
         THEN /\ Abort(p, "perr", b)
              /\ UNCHANGED <<frozenMem, call>>
         ELSE AfterPublish(p)
    /\ UNCHANGED <<cfgVars, resumeC, x, ackQ, need, quiet, snd, errVars,
                   lockVars, closeVars, faults>>

\* lines 223-225: closeC is observed instead
TxPubClose(p) ==
    /\ pc[p] = "tx_pub"
    /\ closeC
    /\ Abort(p, "closed", b)
    /\ UNCHANGED <<cfgVars, frozenMem, resumeC, tblVars, x, snd, errVars,
                   lockVars, closeVars, faults>>

\* line 251: the backoff timer fires
TxBackoffFire(p) ==
    /\ pc[p] = "tx_backoff"
    /\ pc' = Goto(p, "tx_top")
    /\ UNCHANGED <<cfgVars, b, tx, memVars, tblVars, x, snd, errVars, lockVars,
                   closeVars, faults, exitLog>>

\* lines 252-254: closeC is observed during the backoff
TxBackoffClose(p) ==
    /\ pc[p] = "tx_backoff"
    /\ closeC
    /\ Abort(p, "closed", b)
    /\ UNCHANGED <<cfgVars, frozenMem, resumeC, tblVars, x, snd, errVars,
                   lockVars, closeVars, faults>>

(***************************************************************************)
(* The table@build exec as steps of the table loop.  pc["table"] is        *)
(* "tx_exec" at iter.Next() (line 414), "tb_write" at the pause poll of    *)
(* line 489, "tb_paused" inside pauseCompaction called from line 491 and   *)
(* "tb_create" at line 498 after a pause.                                  *)
(***************************************************************************)
InBuild == tx["table"].name = "table@build"

\* an injected failure costs one unit of the budget and must change the outcome
Injected(f, o, o0) ==
    /\ f # "none" => (faults > 0 /\ o # o0)
    /\ faults' = IF f = "none" THEN faults ELSE faults - 1

\* the exec leaves step o: to the next record, to the write, or it returns
BuildGoes(o, cnt) ==
    IF o.to = "ret"
      THEN /\ b' = EndExec(o.st)
           /\ tx' = [tx EXCEPT !["table"].err = o.e, !["table"].cnt = cnt]
           /\ pc' = Goto("table", "tx_pub")
      ELSE /\ b' = o.st
           /\ tx' = [tx EXCEPT !["table"].cnt = cnt]
           /\ pc' = Goto("table", IF o.to = "write" THEN "tb_write" ELSE "tx_exec")

\* lines 414-484 and 521-534
BuildNext ==
    /\ pc["table"] = "tx_exec"
    /\ InBuild
    /\ \E f \in {"none", "iter", "iterc", "finish"} :
          LET o == Advance(b, f)
              incr == IF f \in {"iter", "iterc"} \/ b.i >= Len(input) THEN 0 ELSE 1
          IN  /\ Injected(f, o, Advance(b, "none"))
              /\ BuildGoes(o, tx["table"].cnt + incr)
    /\ UNCHANGED <<cfgVars, memVars, tblVars, x, snd, errVars, lockVars,
                   closeVars, exitLog>>

\* a build that creates its writer without polling for a pause
BuildWrite_NoPoll ==
    /\ pc["table"] \in {"tb_create", "tb_write"}
    /\ \E f \in {"none", "create", "append", "finish"} :
          LET o == WriteRecord(b, f)
          IN  /\ Injected(f, o, WriteRecord(b, "none"))
              /\ BuildGoes(o, tx["table"].cnt)
    /\ UNCHANGED <<cfgVars, memVars, tblVars, x, snd, errVars, lockVars,
                   closeVars, exitLog>>

\* lines 486-518: the poll finds nothing to receive (or a writer is open),
\* then the record is written
BuildWrite ==
    /\ \/ pc["table"] = "tb_create"
       \/ /\ pc["table"] = "tb_write"
          /\ b.tw.open \/ (pc["mem"] # "m_pause" /\ ~closeC)
    /\ \E f \in {"none", "create", "append", "finish"} :
          LET o == WriteRecord(b, f)
          IN  /\ Injected(f, o, WriteRecord(b, "none"))
              /\ BuildGoes(o, tx["table"].cnt)
    /\ UNCHANGED <<cfgVars, memVars, tblVars, x, snd, errVars, lockVars,
                   closeVars, exitLog>>

(***************************************************************************)
(* The fault-free build of the same compaction, as one computation.        *)
(***************************************************************************)
RECURSIVE RunBuild(_)
RunBuild(st) ==
    LET o == Advance(st, "none")
    IN  IF o.to = "ret" THEN [st |-> EndExec(o.st), e |-> o.e]
        ELSE IF o.to = "next" THEN RunBuild(o.st)
        ELSE LET w == WriteRecord(o.st, "none")
             IN  IF w.to = "ret" THEN [st |-> EndExec(w.st), e |-> w.e]
                 ELSE RunBuild(w.st)

FaultFree == RunBuild(Restore(NewBuild))

(***************************************************************************)
(* Initial states.                                                         *)
(***************************************************************************)
NoCmd == [kind |-> "none", ack |-> "none"]

\* everything but the compaction, the options and the loops' positions
InitRest ==
    /\ b = NewBuild
    /\ frozenMem = "none"
    /\ cmem = NewCMem
    /\ resumeC = "nil"
    /\ x = [p \in Loops |-> NoCmd]
    /\ ackQ = <<>>
    /\ call = NoCall
    /\ errState = "noerr"
    /\ err = Nil
    /\ wlocked = FALSE
    /\ writeLockC = "free"
    /\ closed = FALSE
    /\ closeC = FALSE
    /\ exitLog = [p \in Loops |-> NoExit]
    /\ quiet = {}

(***************************************************************************)
(* SpecMerge: one full merge (tableCompaction from line 357 on) of every   *)
(* bounded input, with transient failures injected into table@build and    *)
(* nothing else running but the error loop.                                *)
(***************************************************************************)
InitMerge ==
    /\ input \in Inputs
    \* no writer is open at the first record: shouldStopBefore matters from
    \* the second on; strict matters when a key is corrupted
    /\ stopSet \in SUBSET (2..Len(input))
    /\ deeper \in SUBSET UKeys
    /\ minSeq \in 0..MaxSeq
    /\ tableSize \in 1..MaxTableSize
    /\ strict \in (IF WellFormed(input) THEN {FALSE} ELSE BOOLEAN)
    /\ disableBackoff = TRUE
    /\ need = TRUE
    /\ snd = <<>>
    /\ faults = MaxFaults
    /\ pc = [mem |-> "m_select", table |-> "tx_top"]
    /\ tx = [mem |-> NewTx("none"), table |-> NewTx("table@build")]
    /\ InitRest

NextMerge ==
    \/ /\ InBuild
       /\ TxTop("table")
    \/ BuildNext
    \/ BuildWrite
    \/ TxPublish("table")

SpecMerge == InitMerge /\ [][NextMerge]_vars

\* table@build returned normally: the merge is complete
BuildDone == tx["table"].name = "table@commit"


(***************************************************************************)
(* Properties of the merge.                                                *)
(***************************************************************************)
\* the records of the tables staged in rec.addedTables, and of the input
OutRecs == UNION {{b.addedTables[t].recs[k] : k \in 1..Len(b.addedTables[t].recs)} :
                     t \in 1..Len(b.addedTables)}
InRecs == {input[k] : k \in 1..Len(input)}

\* the value of user key k visible at snapshot s over the records recs and
\* the deeper levels: the sequence number of the visible record, -1 for
\* absent, 0 for whatever the deeper levels hold
Visible(recs, k, s) ==
    LET cand == {r \in recs : r.ok /\ r.ukey = k /\ r.seq <= s}
    IN  IF cand = {}
          THEN IF k \in deeper THEN 0 ELSE -1
          ELSE LET top == CHOOSE r \in cand : \A q \in cand : q.seq <= r.seq
               IN  IF top.kt = ktDel THEN -1 ELSE top.seq

\* a deletion of the input that rule (B) (or rule (A)) drops
ObsoleteDeletion(r) ==
    r.ok /\ r.kt = ktDel /\ r.seq <= minSeq /\ baseLevelForKey(r.ukey)

\* C1: after a complete merge of well-formed keys every snapshot s >= minSeq
\* sees, for every user key, the value it saw over the inputs; and the
\* versions older than a deletion dropped as obsolete are dropped too.
C1_VisiblePreserved ==
    (BuildDone /\ WellFormed(input)) =>
        /\ \A k \in UKeys : \A s \in minSeq..MaxSeq :
              Visible(OutRecs, k, s) = Visible(InRecs, k, s)
        /\ \A r \in InRecs : ObsoleteDeletion(r) =>
              \A q \in InRecs : (q.ukey = r.ukey /\ q.seq <= r.seq) => q \notin OutRecs

\* a merge that dropped an obsolete deletion and an older version behind it
C1_Witness ==
    /\ BuildDone
    /\ WellFormed(input)
    /\ \E r, q \in InRecs : ObsoleteDeletion(r) /\ q.ukey = r.ukey /\ q.seq < r.seq
    /\ OutRecs # {}

\* C2: the output of a completed table@build never holds a well-formed
\* deletion with seq <= minSeq of a user key absent from the deeper levels.
C2_NoObsoleteDeletion ==
    BuildDone => \A r \in OutRecs : ~ObsoleteDeletion(r)

\* a build retried from a snapshot past the start, over an input with an
\* obsolete deletion
C2_Witness ==
    /\ BuildDone
    /\ faults < MaxFaults
    /\ b.snapIter > 0
    /\ \E r \in InRecs : ObsoleteDeletion(r)
    /\ OutRecs # {}

\* the user-key range of a table
Overlap(t1, t2) ==
    /\ t1.recs[1].ukey <= t2.recs[Len(t2.recs)].ukey
    /\ t2.recs[1].ukey <= t1.recs[Len(t1.recs)].ukey

\* C3: any two output tables staged by one fault-free full merge of
\* well-formed keys have non-overlapping user-key ranges.
C3_OutputsDisjoint ==
    (BuildDone /\ WellFormed(input) /\ faults = MaxFaults) =>
        \A t1, t2 \in 1..Len(b.addedTables) :
            t1 # t2 => ~Overlap(b.addedTables[t1], b.addedTables[t2])

\* the contents of the staged tables, in order
Contents(tables) == [t \in 1..Len(tables) |-> tables[t].recs]

\* C4: whatever failures were injected, a build that finally succeeds has
\* staged the tables of the fault-free build, each once and in order, and
\* has the fault-free kerrCnt and dropCnt.
C4_RetryIdempotent ==
    BuildDone =>
        /\ Contents(b.addedTables) = Contents(FaultFree.st.addedTables)
        /\ b.kerrCnt = FaultFree.st.kerrCnt
        /\ b.dropCnt = FaultFree.st.dropCnt


(***************************************************************************)
(* The execs of mem@flush, mem@commit, table@move and table@commit.        *)
(***************************************************************************)
\* an exec that fails returns a transient or a corruption error, at the cost
\* of one unit of the failure budget
ExecResult(r) ==
    /\ r \in {Nil, ErrIO, ErrCorrupted}
    /\ r # Nil => faults > 0
    /\ faults' = IF r = Nil THEN faults ELSE faults - 1

\* cMem.flush (lines 75-98): createFrom writes one table and the record
\* stages it, or fails and leaves nothing
ExecFlush ==
    /\ pc["mem"] = "tx_exec"
    /\ tx["mem"].name = "mem@flush"
    /\ \E r \in {Nil, ErrIO, ErrCorrupted} :
          /\ ExecResult(r)
          /\ tx' = [tx EXCEPT !["mem"].err = r]
          /\ cmem' = IF r = Nil
                       THEN [cmem EXCEPT
                               !.addedTables = Append(@, [num |-> cmem.nextNum]),
                               !.disk = @ \cup {cmem.nextNum},
                               !.nextNum = @ + 1]
                       ELSE cmem
    /\ pc' = Goto("mem", "tx_pub")
    /\ UNCHANGED <<cfgVars, b, frozenMem, resumeC, tblVars, x, snd, errVars,
                   lockVars, closeVars, exitLog>>

\* cMem.commit (lines 104-110) inside mem@commit (line 313): the session
\* commit installs a version, which may need compaction
ExecMemCommit ==
    /\ pc["mem"] = "tx_exec"
    /\ tx["mem"].name = "mem@commit"
    /\ \E r \in {Nil, ErrIO, ErrCorrupted} :
          /\ ExecResult(r)
          /\ tx' = [tx EXCEPT !["mem"].err = r]
          /\ IF r = Nil
               THEN /\ cmem' = [cmem EXCEPT !.committed = TRUE]
                    /\ need' \in BOOLEAN
                    /\ quiet' = {}
               ELSE UNCHANGED <<cmem, need, quiet>>
    /\ pc' = Goto("mem", "tx_pub")
    /\ UNCHANGED <<cfgVars, b, frozenMem, resumeC, ackQ, call, x, snd, errVars,
                   lockVars, closeVars, exitLog>>

\* db.s.commit(rec) inside table@move (line 352) and table@commit (line 550)
ExecTableCommit ==
    /\ pc["table"] = "tx_exec"
    /\ tx["table"].name \in {"table@move", "table@commit"}
    /\ \E r \in {Nil, ErrIO, ErrCorrupted} :
          /\ ExecResult(r)
          /\ tx' = [tx EXCEPT !["table"].err = r]
          /\ IF r = Nil
               THEN /\ b' = [b EXCEPT !.committed = TRUE]
                    /\ need' \in BOOLEAN
               ELSE UNCHANGED <<b, need>>
    /\ pc' = Goto("table", "tx_pub")
    /\ UNCHANGED <<cfgVars, memVars, ackQ, call, quiet, x, snd, errVars,
                   lockVars, closeVars, exitLog>>

(***************************************************************************)
(* Callers of compSendIdle, compSendRange and compSendTrigger.  snd[s] is  *)
(* one call: pc is "init", "send" (the first select), "wait" (the second   *)
(* select), "ret" (returning without an acknowledgment, ch still open) or  *)
(* "done" (returned, ch closed); res is the returned error.                *)
(* evalFalse and needAtAck record, when the call receives an               *)
(* acknowledgment, whether the command was in quiet and what               *)
(* tableNeedCompaction() was.                                              *)
(***************************************************************************)
NewCall == [pc |-> "init", kind |-> "none", res |-> Nil,
            evalFalse |-> FALSE, needAtAck |-> FALSE]

\* a writer holds the write lock while it calls into the mem loop: the lock
\* once the call of s has returned
Release(s) == IF writeLockC = s THEN "free" ELSE writeLockC

\* the send on ackC of cIdle.ack / cRange.ack (lines 615-637) can go on:
\* there is no channel, or the caller is at its second select, or the
\* channel is closed
CanAck(cmd) ==
    IF cmd.ack = "none" THEN TRUE ELSE snd[cmd.ack].pc \in {"wait", "done"}

\* the callee side of cIdle.ack / cRange.ack (lines 615-637): the send on
\* ackC meets the caller's second select, or panics on the closed channel
\* and is recovered
Ack(cmd, e) ==
    IF cmd.ack # "none" /\ snd[cmd.ack].pc = "wait"
      THEN [snd EXCEPT ![cmd.ack].pc = "done",
                       ![cmd.ack].res = e,
                       ![cmd.ack].evalFalse = (e = Nil /\ cmd.ack \in quiet),
                       ![cmd.ack].needAtAck = (e = Nil /\ need)]
      ELSE snd

\* lines 646/654 and 676/684: the call receives the error from compErrC
SendErr(s) ==
    /\ snd[s].pc \in {"send", "wait"}
    /\ OffersErrC
    /\ snd' = [snd EXCEPT ![s].pc = IF @ = "wait" THEN "ret" ELSE "done",
                          ![s].res = err]
    /\ writeLockC' = IF snd[s].pc = "send" THEN Release(s) ELSE writeLockC
    /\ UNCHANGED <<cfgVars, b, pc, tx, memVars, tblVars, x, errVars, wlocked,
                   closeVars, faults, exitLog>>

\* lines 648/655 and 678/685: the call observes closeC
SendClose(s) ==
    /\ snd[s].pc \in {"send", "wait"}
    /\ closeC
    /\ snd' = [snd EXCEPT ![s].pc = IF @ = "wait" THEN "ret" ELSE "done",
                          ![s].res = ErrClosed]
    /\ writeLockC' = IF snd[s].pc = "send" THEN Release(s) ELSE writeLockC
    /\ UNCHANGED <<cfgVars, b, pc, tx, memVars, tblVars, x, errVars, wlocked,
                   closeVars, faults, exitLog>>

\* lines 642 and 672: the deferred close(ch) of a call that returns without
\* an acknowledgment
SendReturn(s) ==
    /\ snd[s].pc = "ret"
    /\ snd' = [snd EXCEPT ![s].pc = "done"]
    /\ writeLockC' = Release(s)
    /\ UNCHANGED <<cfgVars, b, pc, tx, memVars, tblVars, x, errVars, wlocked,
                   closeVars, faults, exitLog>>


(***************************************************************************)
(* The mem loop: mCompaction (lines 691-721) and memCompaction (lines      *)
(* 264-338).  pc["mem"] is "m_select" (line 707), "m_pause" (line 286),    *)
(* the transact positions, "m_resume" (line 328), "m_trigger" (line 337),  *)
(* "m_ack" (line 712), "m_defer" (the deferred function after a sentinel   *)
(* panic) or "done".                                                       *)
(***************************************************************************)
MemSenders == {"w1"}
TableSenders == {"s1"}

IdleCmd(s) == [kind |-> "idle", ack |-> s]
RangeCmd(s) == [kind |-> "range", ack |-> s]

\* memCompaction has returned to line 712: x.ack(nil) has a channel to
\* send on, or is a no-op and the loop is back at its select
MemReturns(cmd, base) ==
    IF cmd.ack = "none"
      THEN /\ pc' = [base EXCEPT !["mem"] = "m_select"]
           /\ x' = [x EXCEPT !["mem"] = NoCmd]
      ELSE /\ pc' = [base EXCEPT !["mem"] = "m_ack"]
           /\ x' = [x EXCEPT !["mem"] = cmd]

\* a dispatch that drops a non-empty frozen memtable before the flush
MemDispatch_DropsFirst(cmd) ==
    /\ frozenMem' = "none"
    /\ MemReturns(cmd, pc)
    /\ UNCHANGED <<cmem, resumeC>>

\* lines 708-711 and 265-285: the command is received and memCompaction
\* runs up to the pause select
MemDispatch(cmd) ==
    CASE frozenMem = "none" ->
           /\ MemReturns(cmd, pc)
           /\ UNCHANGED <<frozenMem, cmem, resumeC>>
      [] frozenMem = "empty" ->
           \* line 280: dropFrozenMem
           /\ frozenMem' = "none"
           /\ MemReturns(cmd, pc)
           /\ UNCHANGED <<cmem, resumeC>>
      [] OTHER ->
           /\ pc' = Goto("mem", "m_pause")
           /\ x' = [x EXCEPT !["mem"] = cmd]
           /\ cmem' = NewCMem
           /\ resumeC' = "open"
           /\ UNCHANGED frozenMem

\* a writer holding the write lock seals the memtable (or finds nothing to
\* seal) and calls compSendIdle(mcompCmdC): it parks at the select of line
\* 644
WriterSend(s) ==
    /\ s \in MemSenders
    /\ snd[s].pc = "init"
    /\ writeLockC = "free"
    /\ writeLockC' = s
    /\ frozenMem' \in (IF frozenMem = "none" THEN {"none", "empty", "full"}
                       ELSE {frozenMem})
    /\ snd' = [snd EXCEPT ![s].pc = "send", ![s].kind = "idle"]
    /\ UNCHANGED <<cfgVars, b, pc, tx, cmem, resumeC, tblVars, x, errVars,
                   wlocked, closeVars, faults, exitLog>>

\* line 708: the mem loop receives the idle command of a parked caller
MemRecv(s) ==
    /\ pc["mem"] = "m_select"
    /\ s \in MemSenders
    /\ snd[s].pc = "send"
    /\ snd' = [snd EXCEPT ![s].pc = "wait"]
    /\ MemDispatch(IdleCmd(s))
    /\ UNCHANGED <<cfgVars, b, tx, tblVars, errVars, lockVars, closeVars,
                   faults, exitLog>>

\* line 717: the mem loop observes closeC and returns
MemSelectClose ==
    /\ pc["mem"] = "m_select"
    /\ closeC
    /\ pc' = Goto("mem", "done")
    /\ UNCHANGED <<cfgVars, b, tx, memVars, tblVars, x, snd, errVars, lockVars,
                   closeVars, faults, exitLog>>

\* lines 288-290: a persistent error is received instead of the handshake
MemPausePerr ==
    /\ pc["mem"] = "m_pause"
    /\ OffersPerErrC
    /\ resumeC' = "nil"
    /\ tx' = [tx EXCEPT !["mem"] = NewTx("mem@flush")]
    /\ pc' = Goto("mem", "tx_top")
    /\ UNCHANGED <<cfgVars, b, frozenMem, cmem, tblVars, x, snd, errVars,
                   lockVars, closeVars, faults, exitLog>>

\* a pause select without the shutdown case
MemPauseClose_NoShutdownCase ==
    /\ pc["mem"] = "m_pause"
    /\ closeC
    /\ UNCHANGED vars

\* lines 291-292: closeC is observed, memCompaction returns
MemPauseClose ==
    /\ pc["mem"] = "m_pause"
    /\ closeC
    /\ resumeC' = "nil"
    /\ MemReturns(x["mem"], pc)
    /\ UNCHANGED <<cfgVars, b, tx, frozenMem, cmem, tblVars, snd, errVars,
                   lockVars, closeVars, faults, exitLog>>

\* a handshake that lets the table loop go on
PauseHandshake_NoPause(where) ==
    /\ pc["mem"] = "m_pause"
    /\ pc' = [pc EXCEPT !["mem"] = "tx_top"]
    /\ tx' = [tx EXCEPT !["mem"] = NewTx("mem@flush")]

\* line 287 met by a receive of the table loop: the mem loop goes on to
\* mem@flush; the table loop is in pauseCompaction at where
PauseHandshake(where) ==
    /\ pc["mem"] = "m_pause"
    /\ pc' = [mem |-> "tx_top", table |-> where]
    /\ tx' = [tx EXCEPT !["mem"] = NewTx("mem@flush")]

\* lines 329-330 met by the send of line 601: the table loop leaves
\* pauseCompaction
MemResume ==
    /\ pc["mem"] = "m_resume"
    /\ pc["table"] \in {"t_paused", "tb_paused"}
    /\ pc' = [mem |-> "m_trigger",
              table |-> IF pc["table"] = "t_paused" THEN "t_top" ELSE "tb_create"]
    /\ resumeC' = "nil"
    /\ UNCHANGED <<cfgVars, b, tx, frozenMem, cmem, tblVars, x, snd, errVars,
                   lockVars, closeVars, faults, exitLog>>

\* lines 331-332: closeC is observed, memCompaction returns
MemResumeClose ==
    /\ pc["mem"] = "m_resume"
    /\ closeC
    /\ resumeC' = "nil"
    /\ MemReturns(x["mem"], pc)
    /\ UNCHANGED <<cfgVars, b, tx, frozenMem, cmem, tblVars, snd, errVars,
                   lockVars, closeVars, faults, exitLog>>

\* line 712: x.ack(nil)
MemAck ==
    /\ pc["mem"] = "m_ack"
    /\ CanAck(x["mem"])
    /\ snd' = Ack(x["mem"], Nil)
    /\ writeLockC' = Release(x["mem"].ack)
    /\ x' = [x EXCEPT !["mem"] = NoCmd]
    /\ pc' = Goto("mem", "m_select")
    /\ UNCHANGED <<cfgVars, b, tx, memVars, tblVars, errVars, wlocked,
                   closeVars, faults, exitLog>>

\* lines 694-704: the sentinel panic is recovered; x is acknowledged with
\* ErrClosed and the loop is gone, and with it the frames of memCompaction
\* and of its transact
MemDefer ==
    /\ pc["mem"] = "m_defer"
    /\ CanAck(x["mem"])
    /\ snd' = Ack(x["mem"], ErrClosed)
    /\ pc' = Goto("mem", "done")
    /\ tx' = [tx EXCEPT !["mem"] = NewTx("none")]
    /\ cmem' = NewCMem
    /\ exitLog' = [exitLog EXCEPT !["mem"] = NoExit]
    /\ writeLockC' = Release(x["mem"].ack)
    /\ UNCHANGED <<cfgVars, b, frozenMem, resumeC, tblVars, x, errVars,
                   wlocked, closeVars, faults>>


\* a writer holding the write lock seals the memtable and calls
\* compSendTrigger(mcompCmdC) (lines 662-667): the command is received if
\* the mem loop waits at its select, and dropped otherwise
WriterTrigger(s) ==
    /\ s \in MemSenders
    /\ snd[s].pc = "init"
    /\ writeLockC = "free"
    /\ snd' = [snd EXCEPT ![s].pc = "done", ![s].kind = "trigger"]
    /\ \E m \in (IF frozenMem = "none" THEN {"none", "empty", "full"}
                 ELSE {frozenMem}) :
          IF pc["mem"] = "m_select"
            THEN CASE m = "full" ->
                        /\ frozenMem' = m
                        /\ pc' = Goto("mem", "m_pause")
                        /\ x' = [x EXCEPT !["mem"] = [kind |-> "idle", ack |-> "none"]]
                        /\ cmem' = NewCMem
                        /\ resumeC' = "open"
                   [] OTHER ->
                        /\ frozenMem' = "none"
                        /\ UNCHANGED <<pc, x, cmem, resumeC>>
            ELSE /\ frozenMem' = m
                 /\ UNCHANGED <<pc, x, cmem, resumeC>>
    /\ UNCHANGED <<cfgVars, b, tx, tblVars, errVars, lockVars, closeVars,
                   faults, exitLog>>

(***************************************************************************)
(* The table loop: tCompaction (lines 723-783).  pc["table"] is "t_top"    *)
(* (line 744), "t_ackq" (lines 755-758), "t_wait" (the select of line      *)
(* 760), "t_paused" (pauseCompaction called from lines 748/763), "t_rack"  *)
(* (line 775), the transact and build positions, "t_defer" (the deferred   *)
(* function) or "done".                                                    *)
(***************************************************************************)
\* range compactions one range command may run (levels for which
\* getCompactionRange returns a compaction)
MaxRangeComps == 1

\* the table loop is at a select that receives from tcompCmdC and
\* tcompPauseC: the blocking one, or the polling one of line 745
AtSelect == pc["table"] = "t_wait" \/ (pc["table"] = "t_top" /\ tableNeedCompaction)

\* line 337, compSendTrigger(tcompCmdC): received only by a table loop
\* blocked at the select of line 760, which then runs lines 769-781
MemTrigger ==
    /\ pc["mem"] = "m_trigger"
    /\ LET cmd == x["mem"]
           base == Goto("mem", IF cmd.ack = "none" THEN "m_select" ELSE "m_ack")
       IN  /\ x' = [x EXCEPT !["mem"] = IF cmd.ack = "none" THEN NoCmd ELSE cmd]
           /\ IF pc["table"] = "t_wait"
                THEN /\ ackQ' = Append(ackQ, [kind |-> "idle", ack |-> "none"])
                     /\ tableAutoCompaction(base)
                ELSE /\ pc' = base
                     /\ UNCHANGED <<ackQ, tx, b, call>>
    /\ UNCHANGED <<cfgVars, memVars, need, quiet, snd, errVars, lockVars,
                   closeVars, faults, exitLog>>

\* a caller of compSendIdle(tcompCmdC) or compSendRange(tcompCmdC, ...)
\* parks at the first select
TableSend(s) ==
    /\ s \in TableSenders
    /\ snd[s].pc = "init"
    /\ \E k \in {"idle", "range"} :
          snd' = [snd EXCEPT ![s].pc = "send", ![s].kind = k]
    /\ UNCHANGED <<cfgVars, b, pc, tx, memVars, tblVars, x, errVars, lockVars,
                   closeVars, faults, exitLog>>

\* line 744 finds no compaction needed: on to the acknowledgments
TableTopIdle ==
    /\ pc["table"] = "t_top"
    /\ ~tableNeedCompaction
    /\ quiet' = {ackQ[k].ack : k \in 1..Len(ackQ)} \ {"none"}
    /\ pc' = Goto("table", IF ackQ = <<>> THEN "t_wait" ELSE "t_ackq")
    /\ UNCHANGED <<cfgVars, b, tx, memVars, ackQ, need, call, x, snd, errVars,
                   lockVars, closeVars, faults, exitLog>>

\* lines 755-759: the next queued idle command is acknowledged with nil
TableAckQ ==
    /\ pc["table"] = "t_ackq"
    /\ CanAck(Head(ackQ))
    /\ snd' = Ack(Head(ackQ), Nil)
    /\ ackQ' = Tail(ackQ)
    /\ quiet' = quiet \ {Head(ackQ).ack}
    /\ pc' = Goto("table", IF Tail(ackQ) = <<>> THEN "t_wait" ELSE "t_ackq")
    /\ UNCHANGED <<cfgVars, b, tx, memVars, need, call, x, errVars,
                   lockVars, closeVars, faults, exitLog>>

\* lines 746/761 and 769-781: a command is received and dispatched; an idle
\* one is queued, a range one starts tableRangeCompaction (lines 562-585)
TableRecv(s) ==
    /\ AtSelect
    /\ s \in TableSenders
    /\ snd[s].pc = "send"
    /\ snd' = [snd EXCEPT ![s].pc = "wait"]
    /\ IF snd[s].kind = "idle"
         THEN /\ ackQ' = Append(ackQ, IdleCmd(s))
              /\ tableAutoCompaction(pc)
              /\ x' = x
         ELSE /\ x' = [x EXCEPT !["table"] = RangeCmd(s)]
              /\ ackQ' = ackQ
              /\ \E k \in 0..MaxRangeComps :
                    IF k = 0
                      THEN /\ pc' = Goto("table", "t_rack")
                           /\ UNCHANGED <<tx, b, call>>
                      ELSE StartTableCompaction(TRUE, "range", k - 1, pc)
    /\ UNCHANGED <<cfgVars, memVars, need, quiet, errVars, lockVars, closeVars,
                   faults, exitLog>>

\* lines 747-749 and 762-764: the pause handle is received
TablePause ==
    /\ AtSelect
    /\ PauseHandshake("t_paused")
    /\ UNCHANGED <<cfgVars, b, memVars, tblVars, x, snd, errVars, lockVars,
                   closeVars, faults, exitLog>>

\* lines 750-751 and 765-766: closeC is observed, tCompaction returns
TableSelectClose ==
    /\ AtSelect
    /\ closeC
    /\ pc' = Goto("table", "t_defer")
    /\ UNCHANGED <<cfgVars, b, tx, memVars, tblVars, x, snd, errVars, lockVars,
                   closeVars, faults, exitLog>>

\* line 752: nothing can be received, the poll falls through to line 781
TableDefault ==
    /\ pc["table"] = "t_top"
    /\ tableNeedCompaction
    /\ \A s \in TableSenders : snd[s].pc # "send"
    /\ pc["mem"] # "m_pause"
    /\ ~closeC
    /\ tableAutoCompaction(pc)
    /\ UNCHANGED <<cfgVars, memVars, ackQ, need, quiet, x, snd, errVars,
                   lockVars, closeVars, faults, exitLog>>

\* lines 775-781: the range command is acknowledged with nil
TableRangeAck ==
    /\ pc["table"] = "t_rack"
    /\ CanAck(x["table"])
    /\ snd' = Ack(x["table"], Nil)
    /\ x' = [x EXCEPT !["table"] = NoCmd]
    /\ tableAutoCompaction(pc)
    /\ UNCHANGED <<cfgVars, memVars, ackQ, need, quiet, errVars, lockVars,
                   closeVars, faults, exitLog>>

\* lines 602-603 from the main loop: closeC is observed in pauseCompaction
TablePausedClose ==
    /\ pc["table"] = "t_paused"
    /\ closeC
    /\ pc' = Goto("table", "t_defer")
    /\ UNCHANGED <<cfgVars, b, tx, memVars, tblVars, x, snd, errVars, lockVars,
                   closeVars, faults, exitLog>>

\* lines 727-741: the deferred function acknowledges ackQ, then x, with
\* ErrClosed
TableDefer ==
    /\ pc["table"] = "t_defer"
    /\ IF ackQ # <<>>
         THEN /\ CanAck(Head(ackQ))
              /\ snd' = Ack(Head(ackQ), ErrClosed)
              /\ ackQ' = Tail(ackQ)
              /\ UNCHANGED <<pc, x, tx, b, call, exitLog>>
         ELSE /\ CanAck(x["table"])
              /\ snd' = Ack(x["table"], ErrClosed)
              /\ x' = [x EXCEPT !["table"] = NoCmd]
              /\ pc' = Goto("table", "done")
              /\ ackQ' = ackQ
              \* the loop is gone, and with it the frames of
              \* tableCompaction and of its transact
              /\ tx' = [tx EXCEPT !["table"] = NewTx("none")]
              /\ b' = NewBuild
              /\ call' = NoCall
              /\ exitLog' = [exitLog EXCEPT !["table"] = NoExit]
    /\ quiet' = {}
    /\ UNCHANGED <<cfgVars, memVars, need, errVars, lockVars, closeVars,
                   faults>>

(***************************************************************************)
(* The pause poll of the build (lines 488-495) and pauseCompaction.        *)
(***************************************************************************)
\* line 490: the pause handle is received before a writer is created
BuildPause ==
    /\ pc["table"] = "tb_write"
    /\ ~b.tw.open
    /\ PauseHandshake("tb_paused")
    /\ UNCHANGED <<cfgVars, b, memVars, tblVars, x, snd, errVars, lockVars,
                   closeVars, faults, exitLog>>

\* lines 492-493 and 602-603: closeC is observed by the poll or inside
\* pauseCompaction; the sentinel panic unwinds the exec
BuildClose ==
    /\ \/ pc["table"] = "tb_write" /\ ~b.tw.open
       \/ pc["table"] = "tb_paused"
    /\ closeC
    /\ Abort("table", "closed", EndExec(b))
    /\ UNCHANGED <<cfgVars, frozenMem, resumeC, tblVars, x, snd, errVars,
                   lockVars, closeVars, faults>>

(***************************************************************************)
(* The error loop's other steps, the write lock and shutdown.              *)
(***************************************************************************)
\* line 156: the error loop takes the write lock
ErrorLock ==
    /\ errState = "hasperr"
    /\ writeLockC = "free"
    /\ writeLockC' = "errloop"
    /\ wlocked' = TRUE
    /\ UNCHANGED <<cfgVars, b, pc, tx, memVars, tblVars, x, snd, errVars,
                   closeVars, faults, exitLog>>

\* an error loop that terminates without releasing the write lock
ErrorClose_KeepsLock ==
    /\ errState # "done"
    /\ closeC
    /\ errState' = "done"
    /\ UNCHANGED <<cfgVars, b, pc, tx, memVars, tblVars, x, snd, err, lockVars,
                   closeVars, faults, exitLog>>

\* lines 129, 146 and 159-164: closeC is observed; the lock is released
ErrorClose ==
    /\ errState # "done"
    /\ closeC
    /\ errState' = "done"
    /\ writeLockC' = IF wlocked THEN "free" ELSE writeLockC
    /\ UNCHANGED <<cfgVars, b, pc, tx, memVars, tblVars, x, snd, err, wlocked,
                   closeVars, faults, exitLog>>

\* DB.Close: setClosed, then close(closeC)
SetClosed ==
    /\ ~closed
    /\ closed' = TRUE
    /\ UNCHANGED <<cfgVars, b, pc, tx, memVars, tblVars, x, snd, errVars,
                   lockVars, closeC, faults, exitLog>>

CloseChannel ==
    /\ closed
    /\ ~closeC
    /\ closeC' = TRUE
    /\ UNCHANGED <<cfgVars, b, pc, tx, memVars, tblVars, x, snd, errVars,
                   lockVars, closed, faults, exitLog>>


(***************************************************************************)
(* Spec: the three loops, the callers and shutdown.  Every table           *)
(* compaction merges the same input: one record that fills one output      *)
(* table, or that record followed by a corrupted key under strict          *)
(* compaction, so that every build fails with a corruption error after     *)
(* its first table.                                                        *)
(***************************************************************************)
\* failures injected into one run of Spec
MaxLoopFaults == 1

LoopInput == << [ok |-> TRUE, ukey |-> 0, seq |-> 1, kt |-> ktVal] >>

LoopInputs ==
    {LoopInput,
     Append(LoopInput, [ok |-> FALSE, ukey |-> EmptyUkey, seq |-> 0, kt |-> ktVal])}

Init ==
    /\ input \in LoopInputs
    /\ stopSet = {}
    /\ deeper = {}
    /\ minSeq = 1
    /\ tableSize = 1
    /\ strict = ~WellFormed(input)
    /\ disableBackoff = FALSE
    /\ need = TRUE
    /\ snd = [s \in MemSenders \cup TableSenders |-> NewCall]
    /\ faults = MaxLoopFaults
    /\ pc = [mem |-> "m_select", table |-> "t_top"]
    /\ tx = [mem |-> NewTx("none"), table |-> NewTx("none")]
    /\ InitRest

Next ==
    \/ \E p \in Loops :
          \/ TxTop(p)
          \/ TxPublish(p)
          \/ TxPerErr(p)
          \/ TxPubClose(p)
          \/ TxBackoffFire(p)
          \/ TxBackoffClose(p)
    \/ ExecFlush
    \/ ExecMemCommit
    \/ ExecTableCommit
    \/ BuildNext
    \/ BuildWrite
    \/ BuildPause
    \/ BuildClose
    \/ \E s \in MemSenders :
          \/ WriterSend(s)
          \/ WriterTrigger(s)
          \/ MemRecv(s)
    \/ \E s \in TableSenders :
          \/ TableSend(s)
          \/ TableRecv(s)
    \/ \E s \in MemSenders \cup TableSenders :
          \/ SendErr(s)
          \/ SendClose(s)
          \/ SendReturn(s)
    \/ MemSelectClose
    \/ MemPausePerr
    \/ MemPauseClose
    \/ MemResume
    \/ MemResumeClose
    \/ MemTrigger
    \/ MemAck
    \/ MemDefer
    \/ TableTopIdle
    \/ TableAckQ
    \/ TablePause
    \/ TableSelectClose
    \/ TableDefault
    \/ TableRangeAck
    \/ TablePausedClose
    \/ TableDefer
    \/ ErrorLock
    \/ ErrorClose
    \/ SetClosed
    \/ CloseChannel

Spec == Init /\ [][Next]_vars

(***************************************************************************)
(* SpecLive: the runs of Spec over the one-record input in which every     *)
(* loop, the error loop and every started call are scheduled whenever they *)
(* can take a step.                                                        *)
(***************************************************************************)
MemNext ==
    \/ TxTop("mem") \/ TxPublish("mem") \/ TxPerErr("mem") \/ TxPubClose("mem")
    \/ TxBackoffFire("mem") \/ TxBackoffClose("mem")
    \/ ExecFlush \/ ExecMemCommit
    \/ MemSelectClose \/ MemPausePerr \/ MemPauseClose \/ MemResume
    \/ MemResumeClose \/ MemTrigger \/ MemAck \/ MemDefer

TableNext ==
    \/ TxTop("table") \/ TxPublish("table") \/ TxPerErr("table")
    \/ TxPubClose("table") \/ TxBackoffFire("table") \/ TxBackoffClose("table")
    \/ ExecTableCommit \/ BuildNext \/ BuildWrite \/ BuildPause \/ BuildClose
    \/ TableTopIdle \/ TableAckQ \/ TablePause \/ TableSelectClose
    \/ TableDefault \/ TableRangeAck \/ TablePausedClose \/ TableDefer

CallNext ==
    \E s \in MemSenders \cup TableSenders : SendClose(s) \/ SendReturn(s)

InitLive == Init /\ input = LoopInput

SpecLive ==
    /\ InitLive
    /\ [][Next]_vars
    /\ WF_vars(MemNext)
    /\ WF_vars(TableNext)
    /\ WF_vars(ErrorClose)
    /\ WF_vars(CallNext)

(***************************************************************************)
(* Claims about the loops.                                                 *)
(***************************************************************************)
\* the sentinel abort of a transact has reached the dispatch loop of p
Aborted(p) ==
    /\ pc[p] \in {"m_defer", "t_defer"}
    /\ exitLog[p].name # "none"

\* C5: when a MemFlush or a table compaction ends by an abort without its
\* session commit having succeeded, no table file it created is left on
\* disk once the abort has reached the dispatch loop.
C5_AbortLeavesNoFile ==
    /\ (Aborted("mem") /\ ~cmem.committed) => cmem.disk = {}
    /\ (Aborted("table") /\ ~b.committed) => b.disk = {}

\* the mem loop is inside an exec of mem@flush or mem@commit
MemInExec == pc["mem"] = "tx_exec"

\* the mem loop is inside compactionTransact for mem@flush or mem@commit
MemInTransact == pc["mem"] \in {"tx_top", "tx_exec", "tx_pub", "tx_backoff"}

\* the table loop is inside an exec of table@move, table@build or
\* table@commit and not in pauseCompaction
TableInExec == pc["table"] \in {"tx_exec", "tb_write", "tb_create"}

\* C6 as stated: while MemFlush runs its transacts the table loop is
\* blocked in pauseCompaction, blocked waiting for a command, or has
\* terminated.
C6_TableBlockedOrTerminated ==
    MemInTransact => pc["table"] \in {"t_paused", "tb_paused", "t_wait", "done"}

\* C6, amended: the mem loop never executes the exec of mem@flush or
\* mem@commit while the table loop executes an exec; while MemFlush runs
\* its transacts the table loop is blocked in pauseCompaction, is unwinding
\* a sentinel abort, or has terminated.
C6_ExecsExclusive ==
    /\ ~(MemInExec /\ TableInExec)
    /\ MemInTransact =>
          pc["table"] \in {"t_paused", "tb_paused", "t_defer", "done"}

\* MemFlush skipped the handshake on a persistent error and is in an exec
C6_Witness ==
    /\ MemInExec
    /\ errState = "hasperr"
    /\ resumeC = "nil"

\* C7: a compSendIdle on the table loop's channel that returned nil was
\* acknowledged after the table loop, holding the command, evaluated
\* tableNeedCompaction() as false, with no MemFlush commit since and no
\* compaction needed at the acknowledgment.
C7_IdleAckAfterQuiet ==
    \A s \in TableSenders :
        (snd[s].pc = "done" /\ snd[s].kind = "idle" /\ snd[s].res = Nil)
            => (snd[s].evalFalse /\ ~snd[s].needAtAck)

\* an idle call returned nil after a MemFlush was committed
C7_Witness ==
    /\ \E s \in TableSenders :
          snd[s].pc = "done" /\ snd[s].kind = "idle" /\ snd[s].res = Nil
    /\ \E s \in MemSenders : snd[s].pc = "done" /\ snd[s].res = Nil
    /\ frozenMem = "none"

\* the transition table of the error loop: the state after e is published
\* in state st
C8_Table(st, e) ==
    CASE st = "noerr" /\ e = Nil -> "noerr"
      [] st = "noerr" /\ e = ErrCorrupted -> "hasperr"
      [] st = "noerr" -> "haserr"
      [] st = "haserr" /\ e = Nil -> "noerr"
      [] st = "haserr" /\ e = ErrCorrupted -> "hasperr"
      [] st = "haserr" -> "haserr"
      [] OTHER -> st

C8_Offers ==
    /\ errState = "noerr" => (err = Nil /\ ~OffersErrC /\ ~OffersPerErrC)
    /\ errState = "haserr" =>
          (err \notin {Nil, ErrCorrupted} /\ OffersErrC /\ ~OffersPerErrC)
    /\ errState = "hasperr" =>
          (err = ErrCorrupted /\ OffersErrC /\ OffersPerErrC)

C8_Step ==
    \* the state and the held error change by a published value, as the
    \* table says, or by shutdown; Persistent consumes nothing
    /\ (errState' # errState \/ err' # err) =>
          \/ closeC /\ errState' = "done" /\ err' = err
          \/ \E p \in Loops :
                /\ pc[p] = "tx_pub"
                /\ errState \in {"noerr", "haserr"}
                /\ err' = tx[p].err
                /\ errState' = C8_Table(errState, tx[p].err)
    \* a call that returns an error other than ErrClosed took the held
    \* error from compErrC, in Transient or Persistent
    /\ \A s \in DOMAIN snd :
          (snd'[s].res # snd[s].res /\ snd'[s].res \notin {Nil, ErrClosed}) =>
              (errState \in {"haserr", "hasperr"} /\ snd'[s].res = err)
    \* MemFlush skips the handshake, and a transact aborts on a persistent
    \* error, only in Persistent
    /\ (pc["mem"] = "m_pause" /\ pc'["mem"] = "tx_top" /\ pc'["table"] = pc["table"])
          => errState = "hasperr"
    /\ \A p \in Loops :
          (exitLog'[p] # exitLog[p] /\ exitLog'[p].cause = "perr")
              => errState = "hasperr"

C9_Aborts ==
    \A p \in Loops :
        exitLog[p].name # "none" =>
            /\ exitLog[p].cause \in {"closed", "corrupted", "perr"}
            /\ exitLog[p].cause = "closed" => closed
            /\ exitLog[p].cause = "corrupted" => exitLog[p].err = ErrCorrupted
            /\ exitLog[p].cause = "perr" =>
                  (exitLog[p].err # Nil /\ errState \in {"hasperr", "done"})
            /\ exitLog[p].rolled =
                  (IF exitLog[p].name \in {"mem@flush", "table@build"} THEN 1 ELSE 0)

C9_Returns ==
    \A p \in Loops :
        (tx[p].name # "none" /\ tx'[p].name # tx[p].name
            /\ pc'[p] \notin {"m_defer", "t_defer"})
          => (pc[p] = "tx_pub" /\ tx[p].err = Nil /\ exitLog'[p] = exitLog[p])

\* C9: a compactionTransact returns normally only right after an exec that
\* returned nil, and then no rollback runs; it aborts by the sentinel only
\* when the database is closed, when exec returned a corruption error, or
\* when exec returned an error and a persistent error was received; on an
\* abort the registered rollback has run exactly once.
C9_TransactExits == []C9_Aborts /\ [][C9_Returns]_vars

\* mem@flush aborted on a persistent error and its rollback ran
C9_Witness ==
    /\ exitLog["mem"].name = "mem@flush"
    /\ exitLog["mem"].cause = "perr"
    /\ exitLog["mem"].rolled = 1

\* C10: once closeC is closed the mem loop, the table loop and the error
\* loop each terminate.
C10_LoopsTerminate ==
    closeC ~> (pc["mem"] = "done" /\ pc["table"] = "done" /\ errState = "done")

\* the three loops have terminated after a shutdown that found a MemFlush
\* and a table compaction under way and a call waiting for each loop
C10_Witness ==
    /\ closeC
    /\ pc["mem"] = "done" /\ pc["table"] = "done" /\ errState = "done"
    /\ frozenMem = "full"
    /\ \A s \in DOMAIN snd : snd[s].pc = "done" /\ snd[s].res = ErrClosed

\* the call of s receives an acknowledgment in this step
Acked(s) == snd[s].pc = "wait" /\ snd'[s].pc = "done"

\* the mem loop holds the idle command of s and its MemFlush has returned
\* on closeC with the frozen memtable neither flushed nor dropped
MemFlushCutShort(s) ==
    /\ pc["mem"] = "m_ack"
    /\ x["mem"] = IdleCmd(s)
    /\ frozenMem = "full"
    /\ closeC

C11_Step ==
    \A s \in DOMAIN snd :
        Acked(s) =>
            \* unfinished work at shutdown is answered with ErrClosed
            /\ MemFlushCutShort(s) => snd'[s].res = ErrClosed
            /\ (s \in TableSenders /\ pc["table"] = "t_defer")
                  => snd'[s].res = ErrClosed
            /\ (s \in MemSenders /\ pc["mem"] = "m_defer")
                  => snd'[s].res = ErrClosed
            \* and the command is acknowledged by the loop that holds it,
            \* which then holds it no more
            /\ \/ x["mem"].ack = s /\ (x'["mem"].ack # s \/ pc'["mem"] = "done")
               \/ x["table"].ack = s /\ x'["table"].ack # s
               \/ /\ ackQ # <<>>
                  /\ Head(ackQ).ack = s
                  /\ \A k \in 1..Len(ackQ') : ackQ'[k].ack # s

\* C11: a command received by a dispatch loop whose work was not completed
\* when shutdown was observed (the commands of ackQ and the dispatched
\* command of the table loop, the idle command of the mem loop whose
\* MemFlush returned on closeC before the commit) is acknowledged with
\* ErrClosed and never with nil, and at most once.
C11_ShutdownAcksClosed == [][C11_Step]_vars

C12_Drops ==
    (frozenMem # "none" /\ frozenMem' = "none") =>
        \/ \* (b) the frozen memtable is empty: nothing is created or committed
           /\ frozenMem = "empty"
           /\ pc["mem"] = "m_select"
           /\ cmem' = cmem
           /\ tx'["mem"].name = "none"
        \/ \* (a) the mem@commit transact returns normally after the commit
           /\ frozenMem = "full"
           /\ pc["mem"] = "tx_pub"
           /\ tx["mem"].name = "mem@commit"
           /\ tx["mem"].err = Nil
           /\ cmem.committed
           /\ Len(cmem.addedTables) = 1
           /\ pc'["mem"] \in {"m_resume", "m_trigger"}

C12_Kept ==
    /\ Aborted("mem") => frozenMem = "full"
    /\ MemInTransact => frozenMem = "full"

\* C12: memCompaction drops the frozen memtable only when it is empty (no
\* table created, nothing committed) or after mem@commit returned normally
\* with the record of the flushed table committed; while the transacts run
\* and after every abort of mem@flush or mem@commit it is left in place.
C12_DropOnlyAfterCommit == []C12_Kept /\ [][C12_Drops]_vars

\* the frozen memtable was dropped after a commit that was retried
C12_Witness ==
    /\ pc["mem"] \in {"m_resume", "m_trigger"}
    /\ frozenMem = "none"
    /\ faults = 0
    /\ errState = "noerr"

(***************************************************************************)
(* SpecLock: SpecLive with the error loop's send on writeLockC and the     *)
(* callers' receive from compErrC scheduled too.                           *)
(***************************************************************************)
CallErrNext == \E s \in MemSenders \cup TableSenders : SendErr(s)

SpecLock ==
    /\ InitLive
    /\ [][Next]_vars
    /\ WF_vars(MemNext)
    /\ WF_vars(TableNext)
    /\ WF_vars(ErrorClose)
    /\ WF_vars(CallNext)
    /\ WF_vars(ErrorLock)
    /\ WF_vars(CallErrNext)

C13_Holds ==
    /\ writeLockC = "errloop" => (wlocked /\ errState = "hasperr")
    /\ wlocked => errState \in {"hasperr", "done"}
    /\ errState = "done" => writeLockC # "errloop"

C13_Step ==
    /\ (writeLockC # "errloop" /\ writeLockC' = "errloop") =>
          (errState = "hasperr" /\ writeLockC = "free")
    /\ (writeLockC = "errloop" /\ writeLockC' # "errloop") =>
          (closeC /\ errState' = "done" /\ writeLockC' = "free")

C13_Acquires ==
    errState = "hasperr" ~> (writeLockC = "errloop" \/ errState = "done")

\* C13: the error loop takes the write lock only in Persistent and only
\* when it is free; once Persistent it eventually holds the lock (or
\* shutdown comes first) and gives it up only when it observes closeC,
\* right before it terminates; a terminated error loop does not hold it.
C13_WriteLock == []C13_Holds /\ [][C13_Step]_vars /\ C13_Acquires

\* the error loop holds the lock that a writer held when Persistent was
\* latched and gave up on receiving the error
C13_Witness ==
    /\ writeLockC = "errloop"
    /\ \E s \in MemSenders : snd[s].pc = "done" /\ snd[s].res = ErrCorrupted

\* the positions of loop p from which its transact invokes exec again, or
\* is inside exec
BeforeOrInExec(p) ==
    pc[p] \in {"tx_top", "tx_backoff", "tx_exec", "tb_write", "tb_create", "tb_paused"}

C14_NoRetry ==
    \A p \in Loops : BeforeOrInExec(p) => tx[p].err # ErrCorrupted

C14_Step ==
    \A p \in Loops :
        (pc[p] = "tx_pub" /\ tx[p].err = ErrCorrupted /\ pc'[p] # pc[p]) =>
            \* the transact aborts with the sentinel
            /\ pc'[p] \in {"m_defer", "t_defer"}
            /\ exitLog'[p].name = tx[p].name
            /\ exitLog'[p].err = ErrCorrupted
            \* on shutdown, or with Persistent latched
            /\ \/ closeC /\ exitLog'[p].cause = "closed"
               \/ /\ exitLog'[p].cause \in {"corrupted", "perr"}
                  /\ errState' = "hasperr"
                  /\ err' = ErrCorrupted

\* C14: after an exec returned a corruption error the transact never
\* invokes exec again: it aborts with the sentinel, and unless it observed
\* closeC instead, the error loop is in Persistent when it does.
C14_CorruptionNotRetried == []C14_NoRetry /\ [][C14_Step]_vars

\* table@build aborted on the corrupted key of its input while the database
\* was open
C14_Witness ==
    /\ exitLog["table"].name = "table@build"
    /\ exitLog["table"].cause = "corrupted"
    /\ errState = "hasperr"
    /\ ~closed

(***************************************************************************)
(* SpecBackoff: one table@build transact with backoff enabled, over a      *)
(* two-record input, with up to MaxBackoffFaults transient failures.       *)
(***************************************************************************)
MaxBackoffFaults == 4

BackoffInput ==
    << [ok |-> TRUE, ukey |-> 0, seq |-> 2, kt |-> ktVal],
       [ok |-> TRUE, ukey |-> 0, seq |-> 1, kt |-> ktVal] >>

InitBackoff ==
    /\ input = BackoffInput
    /\ stopSet = {}
    /\ deeper = {}
    /\ minSeq = 0
    /\ tableSize \in 1..MaxTableSize
    /\ strict = FALSE
    /\ disableBackoff = FALSE
    /\ need = TRUE
    /\ snd = <<>>
    /\ faults = MaxBackoffFaults
    /\ pc = [mem |-> "m_select", table |-> "tx_top"]
    /\ tx = [mem |-> NewTx("none"), table |-> NewTx("table@build")]
    /\ InitRest

NextBackoff ==
    \/ /\ InBuild
       /\ TxTop("table")
    \/ BuildNext
    \/ BuildWrite
    \/ TxPublish("table")
    \/ TxBackoffFire("table")

SpecBackoff == InitBackoff /\ [][NextBackoff]_vars

\* 2^k
RECURSIVE Pow2(_)
Pow2(k) == IF k = 0 THEN 1 ELSE 2 * Pow2(k - 1)

\* the wait after the k-th consecutive failed attempt, as stated: 1s, 2s,
\* 4s, 8s, 8s, ...
C15_Stated(k) == IF k >= 4 THEN 8 * Second ELSE Pow2(k - 1) * Second

\* C15: with backoff enabled and no progress, the wait after the k-th
\* consecutive failed attempt is 1s doubled k-1 times, capped at 8s.
C15_BackoffDoubles ==
    \A p \in Loops :
        (pc[p] = "tx_backoff" /\ tx[p].lastCnt = 0)
            => tx[p].wait = C15_Stated(tx[p].n)

\* C16: with backoff enabled, after a failed attempt in which exec
\* processed at least one record the wait before the next attempt is 1s.
C16_ProgressResets ==
    \A p \in Loops :
        (pc[p] = "tx_backoff" /\ tx[p].cnt >= 1) => tx[p].wait = backoffMin

\* C17: with minSeq = 0 a fault-free merge of well-formed keys writes for
\* each user key only its newest version, writes no deletion of a user key
\* absent from the deeper levels, and counts every other record in dropCnt.
C17_OnlyNewestAtMinSeqZero ==
    (BuildDone /\ WellFormed(input) /\ minSeq = 0 /\ faults = MaxFaults) =>
        /\ \A r \in OutRecs : \A q \in InRecs :
              q.ukey = r.ukey => q.seq <= r.seq
        /\ \A r \in OutRecs : ~(r.kt = ktDel /\ baseLevelForKey(r.ukey))
        /\ b.dropCnt = Len(input) - Cardinality(OutRecs)

(***************************************************************************)
(* SpecRange: one call of tableRangeCompaction (lines 562-585), level by   *)
(* level.  Here call is the frame of that call: the level of the command,  *)
(* ov the levels >= 1 whose tables overlap [umin, umax], has the levels   *)
(* for which getCompactionRange returns a compaction, m, the loop variable *)
(* cur, the levels asked so far and the compactions run so far.            *)
(* pc["table"] is "r_enter" (line 563), "r_level" (lines 566 and 580) or   *)
(* "r_done" (the call has returned).                                       *)
(***************************************************************************)
\* levels are 0..MaxLevel
MaxLevel == 3

\* the greatest element of a non-empty set of numbers
Max(S) == CHOOSE n \in S : \A k \in S : k <= n

\* lines 570-576: m starts at 1 and ends as the deepest overlapping level
DeepestOverlap(ov) == Max(ov \cup {1})

InitRange ==
    /\ \E lv \in -1..MaxLevel, ov \in SUBSET (1..MaxLevel),
          has \in SUBSET (0..MaxLevel) :
          call = [caller |-> "range", left |-> 0, level |-> lv, ov |-> ov,
                  has |-> has, m |-> 0, cur |-> 0, asked |-> <<>>, ran |-> <<>>]
    /\ input = LoopInput
    /\ stopSet = {}
    /\ deeper = {}
    /\ minSeq = 1
    /\ tableSize = 1
    /\ strict = FALSE
    /\ disableBackoff = FALSE
    /\ need = TRUE
    /\ snd = <<>>
    /\ faults = 0
    /\ pc = [mem |-> "m_select", table |-> "r_enter"]
    /\ tx = [p \in Loops |-> NewTx("none")]
    /\ b = NewBuild
    /\ frozenMem = "none"
    /\ cmem = NewCMem
    /\ resumeC = "nil"
    /\ x = [p \in Loops |-> NoCmd]
    /\ ackQ = <<>>
    /\ errState = "noerr"
    /\ err = Nil
    /\ wlocked = FALSE
    /\ writeLockC = "free"
    /\ closed = FALSE
    /\ closeC = FALSE
    /\ exitLog = [p \in Loops |-> NoExit]
    /\ quiet = {}

\* lines 565 and 569-578: the single level, or m and the start of the loop
RangeEnter ==
    /\ pc["table"] = "r_enter"
    /\ call' = IF call.level >= 0
                 THEN [call EXCEPT !.cur = call.level, !.left = 1]
                 ELSE [call EXCEPT !.m = DeepestOverlap(call.ov), !.cur = 0,
                                   !.left = DeepestOverlap(call.ov)]
    /\ pc' = Goto("table", "r_level")
    /\ UNCHANGED <<cfgVars, b, tx, memVars, ackQ, need, quiet, x, snd, errVars,
                   lockVars, closeVars, faults, exitLog>>

\* lines 566-568 and 580-584: getCompactionRange for the level cur, and
\* tableCompaction(c, true) if it returned a compaction
RangeLevel ==
    /\ pc["table"] = "r_level"
    /\ IF call.left = 0
         THEN /\ pc' = Goto("table", "r_done")
              /\ call' = call
         ELSE /\ call' = [call EXCEPT
                            !.asked = Append(@, call.cur),
                            !.ran = IF call.cur \in call.has
                                      THEN Append(@, [level |-> call.cur,
                                                      noTrivial |-> TRUE])
                                      ELSE @,
                            !.cur = @ + 1,
                            !.left = @ - 1]
              /\ pc' = pc
    /\ UNCHANGED <<cfgVars, b, tx, memVars, ackQ, need, quiet, x, snd, errVars,
                   lockVars, closeVars, faults, exitLog>>

NextRange == RangeEnter \/ RangeLevel

SpecRange == InitRange /\ [][NextRange]_vars

\* the levels lo..hi in ascending order
Levels(lo, hi) == [k \in 1..(hi - lo + 1) |-> lo + k - 1]

\* C18: a range compaction with level < 0 asks for the range compaction of
\* every level from 0 through m, the deepest overlapping level, and with
\* level >= 0 of that level only; every compaction found is run with
\* noTrivial = true.
C18_RangeThroughDeepest ==
    pc["table"] = "r_done" =>
        /\ call.asked = IF call.level >= 0 THEN <<call.level>>
                        ELSE Levels(0, call.m)
        /\ \A k \in 1..Len(call.ran) : call.ran[k].noTrivial
        /\ {call.ran[k].level : k \in 1..Len(call.ran)} =
              {call.asked[k] : k \in 1..Len(call.asked)} \cap call.has

(***************************************************************************)
(* SpecPause: a table@build over three records, started by                 *)
(* tableAutoCompaction, next to a writer that seals a memtable and the mem *)
(* loop that flushes it; no failure and no shutdown.                       *)
(***************************************************************************)
PauseInput ==
    << [ok |-> TRUE, ukey |-> 0, seq |-> 2, kt |-> ktVal],
       [ok |-> TRUE, ukey |-> 0, seq |-> 1, kt |-> ktVal],
       [ok |-> TRUE, ukey |-> 1, seq |-> 1, kt |-> ktVal] >>

InitPause ==
    /\ input = PauseInput
    /\ stopSet \in SUBSET (2..Len(input))
    /\ deeper = {}
    /\ minSeq \in 0..MaxSeq
    /\ tableSize \in 1..MaxTableSize
    /\ strict = FALSE
    /\ disableBackoff = FALSE
    /\ need = TRUE
    /\ snd = [s \in MemSenders \cup TableSenders |-> NewCall]
    /\ faults = 0
    /\ pc = [mem |-> "m_select", table |-> "tx_top"]
    /\ tx = [mem |-> NewTx("none"), table |-> NewTx("table@build")]
    /\ b = NewBuild
    /\ frozenMem = "none"
    /\ cmem = NewCMem
    /\ resumeC = "nil"
    /\ x = [p \in Loops |-> NoCmd]
    /\ ackQ = <<>>
    /\ call = [caller |-> "auto", left |-> 0]
    /\ errState = "noerr"
    /\ err = Nil
    /\ wlocked = FALSE
    /\ writeLockC = "free"
    /\ closed = FALSE
    /\ closeC = FALSE
    /\ exitLog = [p \in Loops |-> NoExit]
    /\ quiet = {}

NextPause ==
    \/ \E p \in Loops :
          \/ TxTop(p)
          \/ TxPublish(p)
    \/ ExecFlush
    \/ ExecMemCommit
    \/ ExecTableCommit
    \/ BuildNext
    \/ BuildWrite
    \/ BuildPause
    \/ TablePause
    \/ \E s \in MemSenders :
          \/ WriterSend(s)
          \/ WriterTrigger(s)
          \/ MemRecv(s)
    \/ MemResume
    \/ MemTrigger
    \/ MemAck

SpecPause == InitPause /\ [][NextPause]_vars

\* MemFlush waits at the pause select while the build runs
PauseWaits == pc["mem"] = "m_pause" /\ InBuild /\ ~closeC

C19_Step ==
    \* while MemFlush waits the build creates no writer: at the poll it
    \* takes the handle
    /\ (PauseWaits /\ pc'["mem"] = "m_pause") => ~(~b.tw.open /\ b'.tw.open)
    /\ (PauseWaits /\ pc["table"] = "tb_write" /\ ~b.tw.open
           /\ pc'["table"] # "tb_write")
          => (pc'["table"] = "tb_paused" /\ pc'["mem"] = "tx_top")
    \* the pause, the flush and the resume leave the build as it was, and
    \* the build goes on at the creation of the writer for the same record
    /\ (pc["table"] = "tb_write" /\ pc'["table"] = "tb_paused")
          => (b' = b /\ tx'["table"] = tx["table"])
    /\ pc["table"] = "tb_paused" =>
          /\ b' = b
          /\ tx'["table"] = tx["table"]
          /\ pc'["table"] \in {"tb_paused", "tb_create"}
          /\ pc'["table"] = "tb_create" =>
                (pc["mem"] = "m_resume" /\ frozenMem = "none")
    /\ pc["table"] = "tb_create" =>
          (pc'["table"] # "tb_create" =>
              /\ b'.i = b.i + 1
              /\ b'.addedTables \in
                    {b.addedTables,
                     Append(b.addedTables,
                            [num |-> b.nextNum, recs |-> <<input[b.i + 1]>>])})

C19_Result ==
    \* the build was one attempt that counted each record once and staged
    \* the tables of the undisturbed build
    BuildDone =>
        /\ tx["table"].n = 0
        /\ Contents(b.addedTables) = Contents(FaultFree.st.addedTables)
        /\ \A t \in 1..Len(b.addedTables) : b.addedTables[t].num = t
        /\ b.disk = 1..Len(b.addedTables)
        /\ b.dropCnt = FaultFree.st.dropCnt

\* C19: a MemFlush waiting to hand over its pause handle during a
\* table@build is served before the build creates its next output writer;
\* after the resume the same attempt goes on with the record at which it
\* paused, no record is processed twice and no finished table is dropped
\* or rebuilt.
C19_PauseWithinBuild == []C19_Result /\ [][C19_Step]_vars

\* the build was resumed past a finished table after the flush committed
C19_Witness ==
    /\ pc["table"] = "tb_create"
    /\ Len(b.addedTables) >= 1
    /\ frozenMem = "none"
    /\ pc["mem"] = "m_trigger"

\* the dispatch loop p has terminated, or is in its deferred function on
\* the way out
Terminated(p) == pc[p] \in {"done", "m_defer", "t_defer"}

\* the loop a call is addressed to
LoopOf(s) == IF s \in MemSenders THEN "mem" ELSE "table"

\* C20: a dispatch loop terminates only after shutdown was signaled or
\* with the error loop in Persistent, never on a transient error while the
\* database is open; a call blocked on a terminated loop can receive from
\* compErrC, or shutdown is under way and closeC releases it.
C20_LoopDiesOnlyClosedOrPersistent ==
    /\ \A p \in Loops : Terminated(p) => (closed \/ errState = "hasperr")
    /\ \A s \in DOMAIN snd :
          (snd[s].pc \in {"send", "wait"} /\ Terminated(LoopOf(s)))
              => (OffersErrC \/ closed)

\* the table loop has terminated on a corruption while the database is
\* open, and a call is parked on its command channel
C20_Witness ==
    /\ pc["table"] = "done"
    /\ ~closed
    /\ errState = "hasperr"
    /\ \E s \in TableSenders : snd[s].pc = "send"

====
